---- MODULE Spec2Model ----
(***************************************************************************)
(* A model of treeduction.go: a binary reduction tree over Go channels.    *)
(* Every goroutine of the package is a process of the model, every channel *)
(* operation at which a goroutine can block is one step.                   *)
(*                                                                         *)
(* A value of type T is modelled as the sequence of the leaf values it was *)
(* combined from, and the combiner as concatenation (the string combiner   *)
(* of TestMultipleOutputs): the value shows which leaf values it holds and *)
(* in which order they were combined.                                      *)
(***************************************************************************)
EXTENDS Integers, Sequences, FiniteSets, TLC

\* Bounds of the model.
MaxLeaves == 2      \* leaf streams added in total
MaxVals == 2        \* values a leaf stream emits before it closes
MaxAdds == 2        \* calls of Add
MaxBuf == 2         \* bufferSize given to New: 1..MaxBuf
MaxWide == 4        \* leaf streams of the one call of Add in SpecOneAdd
MaxLiveVals == 2    \* values the leaf streams emit in total in SpecLive
MaxTree == 8        \* leaf streams added in total in SpecAdd
MaxFold == 3        \* in SpecFold: bufferSize, and the values of a lone stream

\* make([]<-chan T, 20)
RootsLen == 20

\* The nil channel of a free slot of t.roots.
Nil == 0

VARIABLES
    bufSize,      \* t.bufSize
    waitForAll,   \* t.waitForAll
    ordered,      \* t.ordered
    roots,        \* t.roots: per level a channel (its index in chans) or Nil
    chans,        \* the channels made by the tree: [buf, closed]
    output,       \* t.output: [buf, closed]
    stopGen,      \* t.stop: the number of the current stop channel; the
                  \* stop channels with a smaller number are closed
    cancelled,    \* t.ctx is done
    wg,           \* t.wg
    src,          \* per leaf, the values its source channel o still holds
    srcOpen,      \* per leaf, whether the source stays open behind them
                  \* (FALSE: it is closed behind them)
    adapters,     \* per leaf, the goroutine of Add: [c, pc, v]
    nodes,        \* the goroutines of orderedNode / unorderedNode
    collectors,   \* the goroutines of updateCollectors: [c, pc, v, stop]
    fin,          \* the call of Finish: "idle", "wait" (in wg.Wait), "done"
    delivered,    \* the values the consumer has received from Output()
    sawClosed,    \* the consumer has received the closed indication
    hist          \* history: what was added, pushed, and what Finish did

vars == <<bufSize, waitForAll, ordered, roots, chans, output, stopGen, cancelled, wg,
          src, srcOpen, adapters, nodes, collectors, fin, delivered, sawClosed, hist>>

----------------------------------------------------------------------------
\* Values and the combiner.

\* The j-th value of the l-th leaf stream.
LeafVal(l, j) == <<10 * l + j>>

\* The values leaf l emits when it emits n values.
LeafVals(l, n) == [j \in 1..n |-> LeafVal(l, j)]

combiner(f, s) == f \o s

----------------------------------------------------------------------------
\* Channels.

NewChan == [buf |-> <<>>, closed |-> FALSE]

\* A send does not block.
HasRoom(ch) == Len(ch.buf) < bufSize

\* A receive yields a value.
HasValue(ch) == ch.buf # <<>>

\* A receive yields the closed indication (ok = false).
IsDrained(ch) == ch.buf = <<>> /\ ch.closed

Send(ch, v) == [ch EXCEPT !.buf = Append(@, v)]

Recv(ch) == [ch EXCEPT !.buf = Tail(@)]

Close(ch) == [ch EXCEPT !.closed = TRUE]

----------------------------------------------------------------------------
\* New

Init ==
    /\ bufSize \in 1..MaxBuf
    /\ waitForAll \in BOOLEAN
    /\ ordered \in BOOLEAN
    /\ roots = [i \in 1..RootsLen |-> Nil]
    /\ chans = <<>>
    /\ output = NewChan
    /\ stopGen = 0
    /\ cancelled = FALSE
    /\ wg = 0
    /\ src = <<>>
    /\ srcOpen = <<>>
    /\ adapters = <<>>
    /\ nodes = <<>>
    /\ collectors = <<>>
    /\ fin = "idle"
    /\ delivered = <<>>
    /\ sawClosed = FALSE
    /\ hist = [adds |-> 0, counts |-> <<>>, pushed |-> <<>>, panicked |-> FALSE,
               finDelivered |-> 0, finDrained |-> FALSE,
               folded |-> <<>>, combines |-> 0, finPushed |-> <<>>,
               finBuffered |-> <<>>, retired |-> 0,
               fwd |-> <<>>, gens |-> <<>>, calls |-> <<>>]

----------------------------------------------------------------------------
\* Add: addOne, orderedNode, unorderedNode, updateCollectors

\* The tree under construction: ts = [roots, chans, nodes].

\* orderedNode(f, s): makes c and starts the node's goroutine.
orderedNode(ts, f, s) ==
    LET c == Len(ts.chans) + 1
    IN [ts EXCEPT !.chans = Append(@, NewChan),
                  !.nodes = Append(@, [f |-> f, s |-> s, c |-> c, fanIn |-> Nil,
                                       pc |-> "first", v |-> <<>>,
                                       ins |-> <<>>, outs |-> <<>>,
                                       fpc |-> "none", fv |-> <<>>,
                                       spc |-> "none", sv |-> <<>>])]

\* unorderedNode(f, s): makes c; its goroutine makes fanIn and starts the two
\* forwarders and the goroutine that closes fanIn.
unorderedNode(ts, f, s) ==
    LET c == Len(ts.chans) + 1
        fanIn == Len(ts.chans) + 2
    IN [ts EXCEPT !.chans = @ \o <<NewChan, NewChan>>,
                  !.nodes = Append(@, [f |-> f, s |-> s, c |-> c, fanIn |-> fanIn,
                                       pc |-> "first", v |-> <<>>,
                                       ins |-> <<>>, outs |-> <<>>,
                                       fpc |-> "recv", fv |-> <<>>,
                                       spc |-> "recv", sv |-> <<>>])]

\* for i := len(t.roots); i <= level; i++ { t.roots = append(t.roots, nil) }
\* (level counts from 0, the sequence from 1)
Extend(rs, level) ==
    IF Len(rs) <= level
    THEN rs \o [i \in 1..(level + 1 - Len(rs)) |-> Nil]
    ELSE rs

\* addOne without the pairing: the stream takes the slot, occupied or not.
addOneOverwrite(ts, root, level) ==
    [ts EXCEPT !.roots = [Extend(@, level) EXCEPT ![level + 1] = root]]

\* addOne that puts the node's stream into the slot it has just emptied.
addOneSameLevel(ts, root, level) ==
    LET t0 == [ts EXCEPT !.roots = Extend(@, level)]
    IN IF t0.roots[level + 1] = Nil
       THEN [t0 EXCEPT !.roots[level + 1] = root]
       ELSE LET prev == t0.roots[level + 1]
                t2 == IF ordered THEN orderedNode(t0, prev, root)
                                 ELSE unorderedNode(t0, prev, root)
            IN [t2 EXCEPT !.roots[level + 1] = t2.nodes[Len(t2.nodes)].c]

RECURSIVE addOne(_, _, _)
addOne(ts, root, level) ==
    LET t0 == [ts EXCEPT !.roots = Extend(@, level)]
    IN IF t0.roots[level + 1] = Nil
       THEN [t0 EXCEPT !.roots[level + 1] = root]
       ELSE LET prev == t0.roots[level + 1]
                t1 == [t0 EXCEPT !.roots[level + 1] = Nil]
                t2 == IF ordered THEN orderedNode(t1, prev, root)
                                 ELSE unorderedNode(t1, prev, root)
            IN addOne(t2, t2.nodes[Len(t2.nodes)].c, level + 1)

\* The body of Add's loop for the streams out[k..]: make c, start the
\* adapter, addOne(c, 0). ts carries the adapters as well.
RECURSIVE AddLoop(_, _)
AddLoop(ts, n) ==
    IF n = 0 THEN ts
    ELSE LET c == Len(ts.chans) + 1
             t1 == [ts EXCEPT !.chans = Append(@, NewChan),
                              !.adapters = Append(@, [c |-> c, pc |-> "select", v |-> <<>>])]
         IN AddLoop(addOne(t1, c, 0), n - 1)

\* The collectors updateCollectors starts: one per occupied level.
RECURSIVE NewCollectors(_, _)
NewCollectors(rs, i) ==
    IF i > Len(rs) THEN <<>>
    ELSE (IF rs[i] = Nil THEN <<>>
          ELSE <<[c |-> rs[i], pc |-> "start", v |-> <<>>, stop |-> 0]>>)
         \o NewCollectors(rs, i + 1)

\* Add(out...), with the streams' contents chosen by the caller: counts[k]
\* values in the k-th stream, which stays open behind them if opens[k] and
\* is closed behind them if not. Add is called by the goroutine that calls
\* Finish, before it.
Add(counts, opens) ==
    /\ fin = "idle"
    /\ LET n0 == Len(adapters)
           ts == AddLoop([roots |-> roots, chans |-> chans, nodes |-> nodes,
                          adapters |-> adapters], Len(counts))
           new == NewCollectors(ts.roots, 1)
       IN /\ roots' = ts.roots
          /\ chans' = ts.chans
          /\ nodes' = ts.nodes
          /\ adapters' = ts.adapters
          /\ src' = src \o [k \in 1..Len(counts) |-> LeafVals(n0 + k, counts[k])]
          /\ srcOpen' = srcOpen \o opens
          \* updateCollectors
          /\ stopGen' = stopGen + 1
          /\ collectors' = collectors \o new
          /\ wg' = wg + Len(new)
          /\ hist' = [hist EXCEPT !.adds = @ + 1, !.counts = @ \o counts,
                                   !.fwd = @ \o [k \in 1..Len(counts) |-> <<>>],
                                   !.gens = @ \o [k \in 1..Len(new) |-> stopGen + 1]]
    /\ UNCHANGED <<bufSize, waitForAll, ordered, output, cancelled, fin, delivered, sawClosed>>

----------------------------------------------------------------------------
\* The leaf adapter: the goroutine Add starts for each stream o.

\* select: case v, ok := <-o, with ok
AdapterRecv(l) ==
    /\ adapters[l].pc = "select"
    /\ src[l] # <<>>
    /\ adapters' = [adapters EXCEPT ![l].pc = "push", ![l].v = Head(src[l])]
    /\ src' = [src EXCEPT ![l] = Tail(@)]
    /\ UNCHANGED <<bufSize, srcOpen, waitForAll, ordered, roots, chans, output, stopGen, cancelled,
                   wg, nodes, collectors, fin, delivered, sawClosed, hist>>

\* select: case v, ok := <-o, with !ok: break loop; close(c)
AdapterSrcClosed(l) ==
    /\ adapters[l].pc = "select"
    /\ src[l] = <<>>
    /\ ~srcOpen[l]
    /\ adapters' = [adapters EXCEPT ![l].pc = "done"]
    /\ chans' = [chans EXCEPT ![adapters[l].c] = Close(@)]
    /\ UNCHANGED <<bufSize, srcOpen, waitForAll, ordered, roots, output, stopGen, cancelled, wg,
                   src, nodes, collectors, fin, delivered, sawClosed, hist>>

\* An adapter that looks at t.ctx.Done() while it pushes as well, and leaves
\* with the value in hand.
AdapterCancelAnywhere(l) ==
    /\ adapters[l].pc \in {"select", "push"}
    /\ cancelled
    /\ adapters' = [adapters EXCEPT ![l].pc = "done"]
    /\ chans' = [chans EXCEPT ![adapters[l].c] = Close(@)]
    /\ UNCHANGED <<bufSize, srcOpen, waitForAll, ordered, roots, output, stopGen, cancelled, wg,
                   src, nodes, collectors, fin, delivered, sawClosed, hist>>

\* select: case <-t.ctx.Done(): break loop; close(c)
AdapterCancel(l) ==
    /\ adapters[l].pc = "select"
    /\ cancelled
    /\ adapters' = [adapters EXCEPT ![l].pc = "done"]
    /\ chans' = [chans EXCEPT ![adapters[l].c] = Close(@)]
    /\ UNCHANGED <<bufSize, srcOpen, waitForAll, ordered, roots, output, stopGen, cancelled, wg,
                   src, nodes, collectors, fin, delivered, sawClosed, hist>>

\* c <- v
AdapterPush(l) ==
    /\ adapters[l].pc = "push"
    /\ HasRoom(chans[adapters[l].c])
    /\ chans' = [chans EXCEPT ![adapters[l].c] = Send(@, adapters[l].v)]
    /\ adapters' = [adapters EXCEPT ![l].pc = "select", ![l].v = <<>>]
    /\ hist' = [hist EXCEPT !.fwd[l] = Append(@, adapters[l].v)]
    /\ UNCHANGED <<bufSize, srcOpen, waitForAll, ordered, roots, output, stopGen, cancelled, wg,
                   src, nodes, collectors, fin, delivered, sawClosed>>

----------------------------------------------------------------------------
\* The loop of a combiner node, over the channel in1 of its first read and
\* the channel in2 of its second read.

\* v1, ok := <-in1, with ok
NodeFirst(j, in1) ==
    /\ nodes[j].pc = "first"
    /\ HasValue(chans[in1])
    /\ nodes' = [nodes EXCEPT ![j].pc = "second", ![j].v = Head(chans[in1].buf),
                              ![j].ins = Append(@, Head(chans[in1].buf))]
    /\ chans' = [chans EXCEPT ![in1] = Recv(@)]

\* v1, ok := <-in1, with !ok: break; close(c)
NodeFirstClosed(j, in1) ==
    /\ nodes[j].pc = "first"
    /\ IsDrained(chans[in1])
    /\ nodes' = [nodes EXCEPT ![j].pc = "done"]
    /\ chans' = [chans EXCEPT ![nodes[j].c] = Close(@)]

\* The combiner called with its arguments swapped.
NodeSecondSwapped(j, in2) ==
    /\ nodes[j].pc = "second"
    /\ HasValue(chans[in2])
    /\ nodes' = [nodes EXCEPT ![j].pc = "send",
                              ![j].v = combiner(Head(chans[in2].buf), @),
                              ![j].ins = Append(@, Head(chans[in2].buf))]
    /\ chans' = [chans EXCEPT ![in2] = Recv(@)]

\* v2, ok := <-in2, with ok: t.combiner(v1, v2) is the value to send
NodeSecond(j, in2) ==
    /\ nodes[j].pc = "second"
    /\ HasValue(chans[in2])
    /\ nodes' = [nodes EXCEPT ![j].pc = "send",
                              ![j].v = combiner(@, Head(chans[in2].buf)),
                              ![j].ins = Append(@, Head(chans[in2].buf))]
    /\ chans' = [chans EXCEPT ![in2] = Recv(@)]

\* A node that drops the value it holds when its second read finds the
\* channel closed.
NodeSecondClosedDrop(j, in2) ==
    /\ nodes[j].pc = "second"
    /\ IsDrained(chans[in2])
    /\ nodes' = [nodes EXCEPT ![j].pc = "done", ![j].v = <<>>]
    /\ chans' = [chans EXCEPT ![nodes[j].c] = Close(@)]

\* v2, ok := <-in2, with !ok: v1 is the value to send, the last one
NodeSecondClosed(j, in2) ==
    /\ nodes[j].pc = "second"
    /\ IsDrained(chans[in2])
    /\ nodes' = [nodes EXCEPT ![j].pc = "sendlast"]
    /\ chans' = chans

\* c <- t.combiner(v1, v2), or c <- v1; break; close(c)
NodeSend(j) ==
    /\ nodes[j].pc \in {"send", "sendlast"}
    /\ HasRoom(chans[nodes[j].c])
    /\ chans' = [chans EXCEPT ![nodes[j].c] =
                    IF nodes[j].pc = "send" THEN Send(@, nodes[j].v)
                                            ELSE Close(Send(@, nodes[j].v))]
    /\ nodes' = [nodes EXCEPT ![j].pc = IF @ = "send" THEN "first" ELSE "done",
                              ![j].v = <<>>,
                              ![j].outs = Append(@, nodes[j].v)]

NodeFrame ==
    UNCHANGED <<bufSize, srcOpen, waitForAll, ordered, roots, output, stopGen, cancelled, wg, src,
                adapters, collectors, fin, delivered, sawClosed, hist>>

\* orderedNode: lock-step reads, the first from f, the second from s.
orderedFirst(j) == nodes[j].fanIn = Nil /\ NodeFirst(j, nodes[j].f) /\ NodeFrame

\* An ordered node that closes its output only when s is closed and read to
\* its end as well.
orderedFirstClosedBoth(j) ==
    /\ nodes[j].fanIn = Nil
    /\ IsDrained(chans[nodes[j].s])
    /\ NodeFirstClosed(j, nodes[j].f)
    /\ NodeFrame

orderedFirstClosed(j) ==
    nodes[j].fanIn = Nil /\ NodeFirstClosed(j, nodes[j].f) /\ NodeFrame

\* orderedNode reading its second value from f as well.
orderedSecondFromF(j) ==
    nodes[j].fanIn = Nil /\ NodeSecond(j, nodes[j].f) /\ NodeFrame

orderedSecond(j) == nodes[j].fanIn = Nil /\ NodeSecond(j, nodes[j].s) /\ NodeFrame

orderedSecondClosed(j) ==
    nodes[j].fanIn = Nil /\ NodeSecondClosed(j, nodes[j].s) /\ NodeFrame

orderedSend(j) == nodes[j].fanIn = Nil /\ NodeSend(j) /\ NodeFrame

\* unorderedNode: both reads from fanIn.
unorderedFirst(j) ==
    nodes[j].fanIn # Nil /\ NodeFirst(j, nodes[j].fanIn) /\ NodeFrame

unorderedFirstClosed(j) ==
    nodes[j].fanIn # Nil /\ NodeFirstClosed(j, nodes[j].fanIn) /\ NodeFrame

unorderedSecond(j) ==
    nodes[j].fanIn # Nil /\ NodeSecond(j, nodes[j].fanIn) /\ NodeFrame

unorderedSecondClosed(j) ==
    nodes[j].fanIn # Nil /\ NodeSecondClosed(j, nodes[j].fanIn) /\ NodeFrame

unorderedSend(j) == nodes[j].fanIn # Nil /\ NodeSend(j) /\ NodeFrame

\* The forwarders of unorderedNode: for v := range f { fanIn <- v }; wg.Done()
\* and the same over s.
fanInRecvF(j) ==
    /\ nodes[j].fpc = "recv"
    /\ HasValue(chans[nodes[j].f])
    /\ nodes' = [nodes EXCEPT ![j].fpc = "send", ![j].fv = Head(chans[nodes[j].f].buf)]
    /\ chans' = [chans EXCEPT ![nodes[j].f] = Recv(@)]
    /\ NodeFrame

fanInDoneF(j) ==
    /\ nodes[j].fpc = "recv"
    /\ IsDrained(chans[nodes[j].f])
    /\ nodes' = [nodes EXCEPT ![j].fpc = "done"]
    /\ chans' = chans
    /\ NodeFrame

fanInSendF(j) ==
    /\ nodes[j].fpc = "send"
    /\ HasRoom(chans[nodes[j].fanIn])
    /\ chans' = [chans EXCEPT ![nodes[j].fanIn] = Send(@, nodes[j].fv)]
    /\ nodes' = [nodes EXCEPT ![j].fpc = "recv", ![j].fv = <<>>]
    /\ NodeFrame

fanInRecvS(j) ==
    /\ nodes[j].spc = "recv"
    /\ HasValue(chans[nodes[j].s])
    /\ nodes' = [nodes EXCEPT ![j].spc = "send", ![j].sv = Head(chans[nodes[j].s].buf)]
    /\ chans' = [chans EXCEPT ![nodes[j].s] = Recv(@)]
    /\ NodeFrame

fanInDoneS(j) ==
    /\ nodes[j].spc = "recv"
    /\ IsDrained(chans[nodes[j].s])
    /\ nodes' = [nodes EXCEPT ![j].spc = "done"]
    /\ chans' = chans
    /\ NodeFrame

fanInSendS(j) ==
    /\ nodes[j].spc = "send"
    /\ HasRoom(chans[nodes[j].fanIn])
    /\ chans' = [chans EXCEPT ![nodes[j].fanIn] = Send(@, nodes[j].sv)]
    /\ nodes' = [nodes EXCEPT ![j].spc = "recv", ![j].sv = <<>>]
    /\ NodeFrame

\* wg.Wait(); close(fanIn)
fanInClose(j) ==
    /\ nodes[j].fpc = "done"
    /\ nodes[j].spc = "done"
    /\ ~chans[nodes[j].fanIn].closed
    /\ chans' = [chans EXCEPT ![nodes[j].fanIn] = Close(@)]
    /\ nodes' = nodes
    /\ NodeFrame

----------------------------------------------------------------------------
\* The root collector: the goroutine updateCollectors starts for a root.

\* Entering the select evaluates its channel operands: t.stop is read here,
\* on every iteration, and is the stop channel of that moment.
CollectorEnter(i) ==
    /\ collectors[i].pc = "start"
    /\ collectors' = [collectors EXCEPT ![i].pc = "select", ![i].stop = stopGen]
    /\ UNCHANGED <<bufSize, srcOpen, waitForAll, ordered, roots, chans, output, stopGen, cancelled,
                   wg, src, adapters, nodes, fin, delivered, sawClosed, hist>>

\* case <-t.stop: break Inner; t.wg.Done()
CollectorStop(i) ==
    /\ collectors[i].pc = "select"
    /\ collectors[i].stop < stopGen
    /\ collectors' = [collectors EXCEPT ![i].pc = "done"]
    /\ wg' = wg - 1
    /\ hist' = [hist EXCEPT !.retired = @ + 1]
    /\ UNCHANGED <<bufSize, srcOpen, waitForAll, ordered, roots, chans, output, stopGen, cancelled,
                   src, adapters, nodes, fin, delivered, sawClosed>>

\* A collector that looks at its stop channel once more after the receive and
\* leaves with the value in hand.
CollectorRecvDrop(i) ==
    /\ collectors[i].pc = "select"
    /\ HasValue(chans[collectors[i].c])
    /\ chans' = [chans EXCEPT ![collectors[i].c] = Recv(@)]
    /\ IF collectors[i].stop < stopGen
       THEN /\ collectors' = [collectors EXCEPT ![i].pc = "done"]
            /\ wg' = wg - 1
       ELSE /\ collectors' = [collectors EXCEPT ![i].pc = "push",
                                    ![i].v = Head(chans[collectors[i].c].buf)]
            /\ wg' = wg
    /\ UNCHANGED <<bufSize, srcOpen, waitForAll, ordered, roots, output, stopGen, cancelled,
                   src, adapters, nodes, fin, delivered, sawClosed, hist>>

\* case v, ok := <-c, with ok
CollectorRecv(i) ==
    /\ collectors[i].pc = "select"
    /\ HasValue(chans[collectors[i].c])
    /\ collectors' = [collectors EXCEPT ![i].pc = "push",
                                        ![i].v = Head(chans[collectors[i].c].buf)]
    /\ chans' = [chans EXCEPT ![collectors[i].c] = Recv(@)]
    /\ UNCHANGED <<bufSize, srcOpen, waitForAll, ordered, roots, output, stopGen, cancelled, wg,
                   src, adapters, nodes, fin, delivered, sawClosed, hist>>

\* case v, ok := <-c, with !ok: break Inner; t.wg.Done()
CollectorClosed(i) ==
    /\ collectors[i].pc = "select"
    /\ IsDrained(chans[collectors[i].c])
    /\ collectors' = [collectors EXCEPT ![i].pc = "done"]
    /\ wg' = wg - 1
    /\ UNCHANGED <<bufSize, srcOpen, waitForAll, ordered, roots, chans, output, stopGen, cancelled,
                   src, adapters, nodes, fin, delivered, sawClosed, hist>>

\* t.output <- v. A send on a closed channel panics.
CollectorPush(i) ==
    /\ collectors[i].pc = "push"
    /\ output.closed \/ HasRoom(output)
    /\ IF output.closed
       THEN /\ hist' = [hist EXCEPT !.panicked = TRUE]
            /\ collectors' = [collectors EXCEPT ![i].pc = "done"]
            /\ output' = output
       ELSE /\ hist' = [hist EXCEPT !.pushed = Append(@, collectors[i].v)]
            /\ collectors' = [collectors EXCEPT ![i].pc = "start", ![i].v = <<>>]
            /\ output' = Send(output, collectors[i].v)
    /\ UNCHANGED <<bufSize, srcOpen, waitForAll, ordered, roots, chans, stopGen, cancelled, wg,
                   src, adapters, nodes, fin, delivered, sawClosed>>

----------------------------------------------------------------------------
\* Finish

\* Every value the leaves were given has reached t.output: no source, no
\* channel of the tree and no goroutine holds one.
Drained ==
    /\ \A l \in 1..Len(src) : src[l] = <<>>
    /\ \A c \in 1..Len(chans) : chans[c].buf = <<>>
    /\ \A l \in 1..Len(adapters) : adapters[l].pc # "push"
    /\ \A j \in 1..Len(nodes) :
          /\ nodes[j].pc \in {"first", "done"}
          /\ nodes[j].fpc # "send"
          /\ nodes[j].spc # "send"
    /\ \A i \in 1..Len(collectors) : collectors[i].pc # "push"

\* Finish that goes into t.wg.Wait() without t.cancel().
FinishCallNoCancel ==
    /\ fin = "idle"
    /\ fin' = "wait"
    /\ hist' = [hist EXCEPT !.finDelivered = Len(delivered), !.finDrained = Drained]
    /\ UNCHANGED <<bufSize, srcOpen, waitForAll, ordered, roots, chans, output, stopGen, wg, src,
                   adapters, nodes, collectors, delivered, sawClosed, cancelled>>

\* The call of Finish up to t.wg.Wait(): in streaming mode t.cancel() comes
\* first.
FinishCall ==
    /\ fin = "idle"
    /\ fin' = "wait"
    /\ cancelled' = (~waitForAll \/ cancelled)
    /\ hist' = [hist EXCEPT !.finDelivered = Len(delivered), !.finDrained = Drained]
    /\ UNCHANGED <<bufSize, srcOpen, waitForAll, ordered, roots, chans, output, stopGen, wg, src,
                   adapters, nodes, collectors, delivered, sawClosed>>

\* Finish without t.wg.Wait().
FinishStreamingNoWait ==
    /\ fin = "wait"
    /\ ~waitForAll
    /\ output' = Close(output)
    /\ fin' = "done"
    /\ hist' = [hist EXCEPT !.finBuffered = output.buf]
    /\ UNCHANGED <<bufSize, srcOpen, waitForAll, ordered, roots, chans, stopGen, cancelled, wg, src,
                   adapters, nodes, collectors, delivered, sawClosed>>

\* !t.waitForAll: t.wg.Wait() returns; close(t.output); return nil
FinishStreaming ==
    /\ fin = "wait"
    /\ ~waitForAll
    /\ wg = 0
    /\ output' = Close(output)
    /\ fin' = "done"
    /\ hist' = [hist EXCEPT !.finBuffered = output.buf]
    /\ UNCHANGED <<bufSize, srcOpen, waitForAll, ordered, roots, chans, stopGen, cancelled, wg, src,
                   adapters, nodes, collectors, delivered, sawClosed>>

\* The loop s: folding from the right: final with the fold of the rest.
RECURSIVE FinishFoldRight(_, _, _)
FinishFoldRight(final, vs, calls) ==
    IF vs = <<>> THEN [final |-> final, calls |-> calls]
    ELSE LET r == FinishFoldRight(Head(vs), Tail(vs), calls)
         IN [final |-> combiner(final, r.final),
             calls |-> Append(r.calls, <<final, r.final>>)]

\* The loop s: of Finish over the values vs left in t.output, final being
\* the value folded so far and calls the calls of t.combiner made: the two
\* arguments of each.
RECURSIVE FinishFold(_, _, _)
FinishFold(final, vs, calls) ==
    IF vs = <<>> THEN [final |-> final, calls |-> calls]
    ELSE FinishFold(combiner(final, Head(vs)), Tail(vs),
                    Append(calls, <<final, Head(vs)>>))

\* Finish without its loop s: the first value is pushed back unfolded.
FinishPushesFirst(buf) == IF buf = <<>> THEN <<>> ELSE <<Head(buf)>>

\* Finish that puts the values back as they were.
FinishPushesAll(buf) == buf

\* Finish without the outer default: the zero value is pushed.
FinishPushesZero(buf) ==
    IF buf = <<>> THEN << <<>> >>
    ELSE <<FinishFold(Head(buf), Tail(buf), <<>>).final>>

\* What Finish pushes back, given the values buf it finds in t.output.
FinishPushes(buf) ==
    IF buf = <<>> THEN <<>>
    ELSE <<FinishFold(Head(buf), Tail(buf), <<>>).final>>

\* t.waitForAll: t.wg.Wait() returns; t.cancel(); the select that drains
\* t.output, folds and pushes the result back; close(t.output); return nil
FinishWaitForAll ==
    /\ fin = "wait"
    /\ waitForAll
    /\ wg = 0
    /\ cancelled' = TRUE
    /\ output' = Close([output EXCEPT !.buf = FinishPushes(output.buf)])
    /\ hist' = [hist EXCEPT
                  !.folded = output.buf,
                  !.calls = IF output.buf = <<>> THEN <<>>
                            ELSE FinishFold(Head(output.buf), Tail(output.buf), <<>>).calls,
                  !.combines = IF output.buf = <<>> THEN 0
                               ELSE Len(FinishFold(Head(output.buf), Tail(output.buf),
                                                   <<>>).calls),
                  !.finPushed = FinishPushes(output.buf)]
    /\ fin' = "done"
    /\ UNCHANGED <<bufSize, srcOpen, waitForAll, ordered, roots, chans, stopGen, wg, src,
                   adapters, nodes, collectors, delivered, sawClosed>>

----------------------------------------------------------------------------
\* The consumer of Output(). With waitForAll it reads once Finish has
\* returned, as the README prescribes.

\* v, ok := <-tree.Output(), with ok
ConsumerRead ==
    /\ waitForAll => fin = "done"
    /\ HasValue(output)
    /\ delivered' = Append(delivered, Head(output.buf))
    /\ output' = Recv(output)
    /\ UNCHANGED <<bufSize, srcOpen, waitForAll, ordered, roots, chans, stopGen, cancelled, wg, src,
                   adapters, nodes, collectors, fin, sawClosed, hist>>

\* v, ok := <-tree.Output(), with !ok
ConsumerClosed ==
    /\ IsDrained(output)
    /\ ~sawClosed
    /\ sawClosed' = TRUE
    /\ UNCHANGED <<bufSize, srcOpen, waitForAll, ordered, roots, chans, output, stopGen, cancelled,
                   wg, src, adapters, nodes, collectors, fin, delivered, hist>>

----------------------------------------------------------------------------

\* The steps of the goroutines the tree starts, but for CollectorStop.
Tasks ==
    \/ \E l \in 1..Len(adapters) : AdapterRecv(l)
    \/ \E l \in 1..Len(adapters) : AdapterSrcClosed(l)
    \/ \E l \in 1..Len(adapters) : AdapterCancel(l)
    \/ \E l \in 1..Len(adapters) : AdapterPush(l)
    \/ \E j \in 1..Len(nodes) : orderedFirst(j)
    \/ \E j \in 1..Len(nodes) : orderedFirstClosed(j)
    \/ \E j \in 1..Len(nodes) : orderedSecond(j)
    \/ \E j \in 1..Len(nodes) : orderedSecondClosed(j)
    \/ \E j \in 1..Len(nodes) : orderedSend(j)
    \/ \E j \in 1..Len(nodes) : unorderedFirst(j)
    \/ \E j \in 1..Len(nodes) : unorderedFirstClosed(j)
    \/ \E j \in 1..Len(nodes) : unorderedSecond(j)
    \/ \E j \in 1..Len(nodes) : unorderedSecondClosed(j)
    \/ \E j \in 1..Len(nodes) : unorderedSend(j)
    \/ \E j \in 1..Len(nodes) : fanInRecvF(j)
    \/ \E j \in 1..Len(nodes) : fanInDoneF(j)
    \/ \E j \in 1..Len(nodes) : fanInSendF(j)
    \/ \E j \in 1..Len(nodes) : fanInRecvS(j)
    \/ \E j \in 1..Len(nodes) : fanInDoneS(j)
    \/ \E j \in 1..Len(nodes) : fanInSendS(j)
    \/ \E j \in 1..Len(nodes) : fanInClose(j)
    \/ \E i \in 1..Len(collectors) : CollectorEnter(i)
    \/ \E i \in 1..Len(collectors) : CollectorRecv(i)
    \/ \E i \in 1..Len(collectors) : CollectorClosed(i)
    \/ \E i \in 1..Len(collectors) : CollectorPush(i)

\* The steps of the caller's Finish and of the consumer.
Callers ==
    \/ FinishCall
    \/ FinishStreaming
    \/ FinishWaitForAll
    \/ ConsumerRead
    \/ ConsumerClosed

\* The streams of one call of Add: how many values each emits.
Batches == UNION {[1..n -> 0..MaxVals] : n \in 1..MaxLeaves}

\* Up to MaxAdds calls of Add, of up to MaxLeaves streams in total.
AddSome ==
    \E counts \in Batches :
        /\ hist.adds < MaxAdds
        /\ Len(adapters) + Len(counts) <= MaxLeaves
        /\ Add(counts, [k \in 1..Len(counts) |-> FALSE])

Next ==
    \/ AddSome
    \/ Tasks
    \/ \E i \in 1..Len(collectors) : CollectorStop(i)
    \/ Callers

Spec == Init /\ [][Next]_vars

\* One call of Add, of up to MaxWide streams that emit one value each. No
\* stop channel but the first is ever closed: CollectorStop has no step.
AddWide ==
    \E n \in 1..MaxWide :
        /\ hist.adds = 0
        /\ Add([k \in 1..n |-> 1], [k \in 1..n |-> FALSE])

NextOneAdd ==
    \/ AddWide
    \/ Tasks
    \/ Callers

SpecOneAdd == Init /\ [][NextOneAdd]_vars

\* The caller alone: calls of Add, of any number of streams, before any
\* goroutine of the tree has taken a step.
AddMany ==
    \E n \in 1..MaxTree :
        /\ Len(adapters) + n <= MaxTree
        /\ Add([k \in 1..n |-> 0], [k \in 1..n |-> FALSE])

SpecAdd == Init /\ [][AddMany]_vars

\* Whole-tree mode with a buffer of MaxFold values, and one call of Add: of
\* streams as in Spec or of a lone stream of up to MaxFold values.
InitFold ==
    /\ bufSize = MaxFold
    /\ waitForAll = TRUE
    /\ ordered \in BOOLEAN
    /\ roots = [i \in 1..RootsLen |-> Nil]
    /\ chans = <<>>
    /\ output = NewChan
    /\ stopGen = 0
    /\ cancelled = FALSE
    /\ wg = 0
    /\ src = <<>>
    /\ srcOpen = <<>>
    /\ adapters = <<>>
    /\ nodes = <<>>
    /\ collectors = <<>>
    /\ fin = "idle"
    /\ delivered = <<>>
    /\ sawClosed = FALSE
    /\ hist = [adds |-> 0, counts |-> <<>>, pushed |-> <<>>, panicked |-> FALSE,
               finDelivered |-> 0, finDrained |-> FALSE,
               folded |-> <<>>, combines |-> 0, finPushed |-> <<>>,
               finBuffered |-> <<>>, retired |-> 0,
               fwd |-> <<>>, gens |-> <<>>, calls |-> <<>>]

AddFold ==
    \E counts \in Batches \cup {<<n>> : n \in 0..MaxFold} :
        /\ hist.adds = 0
        /\ Add(counts, [k \in 1..Len(counts) |-> FALSE])

NextFold ==
    \/ AddFold
    \/ Tasks
    \/ FinishCall
    \/ FinishWaitForAll
    \/ ConsumerRead
    \/ ConsumerClosed

SpecFold == InitFold /\ [][NextFold]_vars

\* One call of Add, of streams of which some stay open: they emit their
\* values and then neither a value nor the closed indication.
AddOpen ==
    \E counts \in Batches :
        \E opens \in [1..Len(counts) -> BOOLEAN] :
            /\ hist.adds = 0
            /\ Add(counts, opens)

NextOpen ==
    \/ AddOpen
    \/ Tasks
    \/ Callers

SpecOpen == Init /\ [][NextOpen]_vars

\* Streaming mode, calls of Add of streams of up to MaxLiveVals values in
\* total, open or closed behind them, and a scheduler that lets every
\* goroutine that can take a step take one, the consumer of Output()
\* included.
InitLive == Init /\ ~waitForAll

RECURSIVE Total(_)
Total(counts) == IF counts = <<>> THEN 0 ELSE Head(counts) + Total(Tail(counts))

AddLive ==
    \E counts \in UNION {[1..n -> 0..MaxLiveVals] : n \in 1..MaxLeaves} :
        \E opens \in [1..Len(counts) -> BOOLEAN] :
            /\ hist.adds < MaxAdds
            /\ Len(adapters) + Len(counts) <= MaxLeaves
            /\ Total(hist.counts) + Total(counts) <= MaxLiveVals
            /\ Add(counts, opens)

AdapterStep(l) ==
    /\ l \in 1..Len(adapters)
    /\ AdapterRecv(l) \/ AdapterSrcClosed(l) \/ AdapterCancel(l) \/ AdapterPush(l)

NodeStep(j) ==
    /\ j \in 1..Len(nodes)
    /\ \/ orderedFirst(j) \/ orderedFirstClosed(j) \/ orderedSecond(j)
       \/ orderedSecondClosed(j) \/ orderedSend(j)
       \/ unorderedFirst(j) \/ unorderedFirstClosed(j) \/ unorderedSecond(j)
       \/ unorderedSecondClosed(j) \/ unorderedSend(j)

ForwarderFStep(j) ==
    /\ j \in 1..Len(nodes)
    /\ fanInRecvF(j) \/ fanInDoneF(j) \/ fanInSendF(j)

ForwarderSStep(j) ==
    /\ j \in 1..Len(nodes)
    /\ fanInRecvS(j) \/ fanInDoneS(j) \/ fanInSendS(j)

CloserStep(j) == j \in 1..Len(nodes) /\ fanInClose(j)

CollectorStep(i) ==
    /\ i \in 1..Len(collectors)
    /\ \/ CollectorEnter(i) \/ CollectorStop(i) \/ CollectorRecv(i)
       \/ CollectorClosed(i) \/ CollectorPush(i)

NextLive ==
    \/ AddLive
    \/ Tasks
    \/ \E i \in 1..Len(collectors) : CollectorStop(i)
    \/ FinishCall
    \/ FinishStreaming
    \/ ConsumerRead
    \/ ConsumerClosed

Fairness ==
    /\ \A l \in 1..MaxLeaves : WF_vars(AdapterStep(l))
    /\ \A j \in 1..MaxLeaves :
          /\ WF_vars(NodeStep(j))
          /\ WF_vars(ForwarderFStep(j))
          /\ WF_vars(ForwarderSStep(j))
          /\ WF_vars(CloserStep(j))
    /\ \A i \in 1..(MaxAdds * MaxLeaves) : WF_vars(CollectorStep(i))
    /\ WF_vars(FinishStreaming)
    /\ WF_vars(ConsumerRead)
    /\ WF_vars(ConsumerClosed)

SpecLive == InitLive /\ [][NextLive]_vars /\ Fairness

----------------------------------------------------------------------------
\* What the claims speak of.

RECURSIVE Flatten(_)
\* The leaf values held by a sequence of values, in order.
Flatten(vs) == IF vs = <<>> THEN <<>> ELSE Head(vs) \o Flatten(Tail(vs))

RECURSIVE FlattenAll(_)
\* The leaf values held by a sequence of sequences of values.
FlattenAll(qs) == IF qs = <<>> THEN <<>> ELSE Flatten(Head(qs)) \o FlattenAll(Tail(qs))

\* The leaf values given to the tree by the calls of Add so far.
AllLeafVals ==
    UNION {{LeafVal(l, j)[1] : j \in 1..hist.counts[l]} : l \in 1..Len(hist.counts)}

\* ids holds every element of S exactly once and nothing else.
HoldsOnce(ids, S) ==
    /\ Len(ids) = Cardinality(S)
    /\ {ids[k] : k \in 1..Len(ids)} = S

IsPrefix(a, b) == Len(a) <= Len(b) /\ \A k \in 1..Len(a) : a[k] = b[k]

\* The leaf values anywhere between the sources and the consumer.
InSystem ==
    FlattenAll(src) \o FlattenAll([c \in 1..Len(chans) |-> chans[c].buf])
    \o Flatten([l \in 1..Len(adapters) |-> adapters[l].v])
    \o Flatten([j \in 1..Len(nodes) |-> nodes[j].v \o nodes[j].fv \o nodes[j].sv])
    \o Flatten([i \in 1..Len(collectors) |-> collectors[i].v])
    \o Flatten(output.buf) \o Flatten(delivered)

\* Every leaf stream emits the same number of values.
EqualCounts == \A l \in 1..Len(hist.counts) : hist.counts[l] = hist.counts[1]

\* The caller contract of ordered=true: one call of Add, equal counts.
OrderedContract == hist.adds <= 1 /\ EqualCounts

\* Finish was not called, or was called when every leaf value had reached
\* t.output.
FinishAfterDrain == fin = "idle" \/ hist.finDrained

AllCollectorsDone == \A i \in 1..Len(collectors) : collectors[i].pc = "done"

AllAdaptersDone == \A l \in 1..Len(adapters) : adapters[l].pc = "done"

----------------------------------------------------------------------------
\* C1: with waitForAll, once Finish has returned, Output carries one value
\* that holds every value the leaf streams emitted exactly once (its fold
\* under an associative, commutative combiner), whatever the calls of Add
\* and the interleaving; under ordered=true for one call of Add and equal
\* counts. When no leaf emitted a value there is none.
C1_FoldOfAll ==
    (waitForAll /\ fin = "done" /\ (ordered => OrderedContract))
    => LET got == delivered \o output.buf
       IN /\ Len(got) <= 1
          /\ HoldsOnce(Flatten(got), AllLeafVals)

C1_Witness ==
    /\ waitForAll /\ fin = "done" /\ ~ordered
    /\ hist.adds = 2
    /\ Len(hist.folded) = 2
    /\ Cardinality(AllLeafVals) >= 3
    /\ Len(delivered) = 1

\* C2: with waitForAll, in every state after Finish has returned Output is
\* closed and has carried at most one value, and no collector is left to
\* push to it.
C2_AtMostOne ==
    (waitForAll /\ fin = "done")
    => /\ output.closed
       /\ Len(delivered) + Len(output.buf) <= 1
       /\ AllCollectorsDone
       /\ ~hist.panicked

C2_Witness ==
    /\ waitForAll /\ fin = "done"
    /\ Len(hist.folded) >= 2
    /\ Len(delivered) = 1
    /\ sawClosed

\* C3: with waitForAll, finite leaf streams and the Add contract respected, a
\* call of Finish does not block for ever while nobody reads Output: as long
\* as Finish has not returned, some goroutine can take a step.
C3_FinishReturns ==
    (waitForAll /\ fin = "wait" /\ (ordered => OrderedContract))
    => ENABLED Next

Pairs(n) == [k \in 1..n |-> combiner(LeafVal(1, k), LeafVal(2, k))]

TwoEqualStreams ==
    /\ ~waitForAll
    /\ hist.adds = 1
    /\ Len(hist.counts) = 2
    /\ hist.counts[1] = hist.counts[2]

\* C4 as stated: ordered, streaming, two streams of equal length in one call
\* of Add: Output carries combine(a1,b1), ..., combine(an,bn) in this order
\* and no other value.
C4_PairsInOrder ==
    (TwoEqualStreams /\ ordered)
    => IsPrefix(hist.pushed, Pairs(hist.counts[1]))

\* C4 amended: the same, when Finish is not called before every leaf value
\* has reached Output.
C4_PairsInOrderAfterDrain ==
    (TwoEqualStreams /\ ordered /\ FinishAfterDrain)
    => /\ IsPrefix(hist.pushed, Pairs(hist.counts[1]))
       /\ Drained => hist.pushed = Pairs(hist.counts[1])
       /\ sawClosed => delivered = Pairs(hist.counts[1])

C4_Witness ==
    /\ TwoEqualStreams /\ ordered /\ FinishAfterDrain
    /\ hist.counts[1] = 2
    /\ delivered = Pairs(2)
    /\ sawClosed

PowerOfTwoLeaves ==
    /\ ~waitForAll
    /\ hist.adds = 1
    /\ \E m \in 0..MaxWide : Len(hist.counts) = 2^m
    /\ \A l \in 1..Len(hist.counts) : hist.counts[l] = 1
    /\ fin = "idle" \/ hist.finDelivered >= 1

\* C5: streaming, either discipline, 2^m leaf streams of one value each in
\* one call of Add, Finish not called before the first read: Output carries
\* exactly one value, which holds every leaf value once.
C5_OneFold ==
    PowerOfTwoLeaves
    => /\ Len(hist.pushed) <= 1
       /\ \A k \in 1..Len(hist.pushed) : HoldsOnce(hist.pushed[k], AllLeafVals)
       /\ Drained => Len(hist.pushed) = 1
       /\ sawClosed => Len(delivered) = 1

C5_Witness ==
    /\ PowerOfTwoLeaves
    /\ Len(hist.counts) = 4
    /\ Len(delivered) = 1
    /\ sawClosed

\* C6: streaming, unordered, any calls of Add, Finish called only when every
\* leaf value has reached Output: no leaf value is lost or duplicated on the
\* way, and the values read until Output is closed hold every leaf value
\* exactly once.
C6_NothingLost ==
    (~waitForAll /\ ~ordered /\ FinishAfterDrain)
    => /\ HoldsOnce(InSystem, AllLeafVals)
       /\ sawClosed => HoldsOnce(Flatten(delivered), AllLeafVals)

C6_Witness ==
    /\ ~waitForAll /\ ~ordered /\ FinishAfterDrain
    /\ hist.adds = 2
    /\ hist.retired >= 1
    /\ Cardinality(AllLeafVals) = 4
    /\ Len(delivered) >= 2
    /\ sawClosed

\* C7: Finish closes Output only when every collector of every generation
\* has exited, no collector sends on the closed Output, and in streaming
\* mode the consumer receives what was pushed, in that order, the values
\* Output held at its closing included, before the closed indication.
C7_ClosedAfterCollectors ==
    /\ ~hist.panicked
    /\ output.closed => AllCollectorsDone
    /\ ~waitForAll => hist.pushed = delivered \o output.buf
    /\ sawClosed => output.buf = <<>>
    /\ (sawClosed /\ ~waitForAll) =>
          \E k \in 0..Len(delivered) :
              delivered = SubSeq(delivered, 1, k) \o hist.finBuffered

C7_Witness ==
    /\ ~waitForAll /\ fin = "done"
    /\ hist.adds = 2
    /\ Len(hist.finBuffered) >= 1
    /\ Len(delivered) > Len(hist.finBuffered)
    /\ sawClosed

\* C8: streaming: when Finish has returned, every leaf adapter and every
\* collector has exited.
C8_AllExited ==
    (~waitForAll /\ fin = "done") => (AllAdaptersDone /\ AllCollectorsDone)

\* C9: with waitForAll, when Finish finds Output empty it pushes nothing,
\* does not call the combiner and closes Output empty: the first read yields
\* the closed indication.
C9_EmptyStaysEmpty ==
    (waitForAll /\ fin = "done" /\ hist.folded = <<>>)
    => /\ hist.finPushed = <<>>
       /\ hist.combines = 0
       /\ output = [buf |-> <<>>, closed |-> TRUE]
       /\ delivered = <<>>

C9_Witness ==
    /\ waitForAll /\ fin = "done" /\ hist.folded = <<>>
    /\ hist.adds >= 1
    /\ sawClosed

HelloGoodbye ==
    /\ ~waitForAll
    /\ hist.adds = 1
    /\ hist.counts = <<2, 2>>

HelloWorld == combiner(LeafVal(1, 1), LeafVal(2, 1))

GoodbyeEveryone == combiner(LeafVal(1, 2), LeafVal(2, 2))

\* C10 as stated: streaming, ordered or not, streams ("Hello, ","Goodbye, ")
\* and ("World!","Everyone!") in one call of Add: Output carries no value
\* but "Hello, World!" and "Goodbye, Everyone!".
C10_NeverMixed ==
    HelloGoodbye
    => \A k \in 1..Len(hist.pushed) : hist.pushed[k] \in {HelloWorld, GoodbyeEveryone}

\* C10 amended: under ordered=true, when Finish is not called before every
\* leaf value has reached Output, Output carries exactly these two values
\* and no other.
C10_NeverMixedOrdered ==
    (HelloGoodbye /\ ordered /\ FinishAfterDrain)
    => /\ \A k \in 1..Len(hist.pushed) : hist.pushed[k] \in {HelloWorld, GoodbyeEveryone}
       /\ sawClosed => /\ Len(delivered) = 2
                       /\ {delivered[1], delivered[2]} = {HelloWorld, GoodbyeEveryone}

C10_Witness ==
    /\ HelloGoodbye /\ ordered /\ FinishAfterDrain
    /\ Len(delivered) = 2
    /\ fin = "done"
    /\ sawClosed

\* What a node emits for the values ins it has read, in the order read: the
\* combination of each two in a row, and the last one raw when it is left.
Emits(ins) ==
    [k \in 1..((Len(ins) + 1) \div 2) |->
        IF 2 * k <= Len(ins) THEN combiner(ins[2 * k - 1], ins[2 * k])
                             ELSE ins[2 * k - 1]]

Range(q) == {q[k] : k \in 1..Len(q)}

\* C11: an unordered node that merged n values from its two inputs emits
\* ceil(n/2) values and closes its output: the combination of each two merged
\* values in a row and, n odd, the last one raw, every merged value in one
\* emitted value; the output is closed only after both inputs are closed
\* and read to their end. With no other reader of its inputs (one call of
\* Add) the merged values are the values the inputs delivered.
C11_HalfOfMerged ==
    ~ordered =>
    \A j \in 1..Len(nodes) :
        LET n == nodes[j]
        IN /\ IsPrefix(n.outs, Emits(n.ins))
           /\ chans[n.c].closed <=> n.pc = "done"
           /\ n.pc = "done" =>
                 /\ n.outs = Emits(n.ins)
                 /\ Len(n.outs) = (Len(n.ins) + 1) \div 2
                 /\ HoldsOnce(Flatten(n.outs), Range(Flatten(n.ins)))
                 /\ IsDrained(chans[n.f]) /\ IsDrained(chans[n.s])
                 /\ IsDrained(chans[n.fanIn])
                 /\ n.fpc = "done" /\ n.spc = "done"
           /\ (n.pc = "done" /\ hist.adds = 1 /\ Len(adapters) = 2) =>
                 /\ Len(n.ins) = Len(hist.fwd[1]) + Len(hist.fwd[2])
                 /\ Range(n.ins) = Range(hist.fwd[1]) \cup Range(hist.fwd[2])

C11_Witness ==
    /\ ~ordered
    /\ hist.adds = 1
    /\ Len(nodes) = 1
    /\ nodes[1].pc = "done"
    /\ Len(nodes[1].ins) = 3
    /\ Len(nodes[1].outs) = 2

\* One ordered node over the queues of two leaf adapters: f is the queue of
\* leaf 1, s the queue of leaf 2, and nobody else reads them.
OneOrderedNode ==
    /\ ordered
    /\ hist.adds = 1
    /\ Len(adapters) = 2

\* combine(f_i, s_i) for i = 1..n.
PairsOf(F, S, n) == [i \in 1..n |-> combiner(F[i], S[i])]

\* The values at the odd places of a sequence, and at the even ones.
Odds(q) == [k \in 1..((Len(q) + 1) \div 2) |-> q[2 * k - 1]]

Evens(q) == [k \in 1..(Len(q) \div 2) |-> q[2 * k]]

\* C12: an ordered node over f and s, which deliver p and q values. It reads
\* f and s in turn, in their order, and emits combine(f_i, s_i). If p <= q
\* and f is closed it ends with exactly these p values, its output closed
\* and the other values of s unread; if p > q and s is closed it ends with
\* q of them and then f_(q+1) raw, the further values of f unread. If p > q
\* and s stays open without values it holds f_(q+1), can take no step and
\* its output is never closed. In streaming mode no run ends with the node
\* short of the end the first two cases give.
C12_LockStep ==
    OneOrderedNode =>
    LET F == hist.fwd[1]
        S == hist.fwd[2]
        p == Len(F)
        q == Len(S)
        n == nodes[1]
    IN /\ IsPrefix(Odds(n.ins), F)
       /\ IsPrefix(Evens(n.ins), S)
       /\ IsPrefix(n.outs, Emits(n.ins))
       /\ chans[n.c].closed <=> n.pc = "done"
       /\ (adapters[1].pc = "done" /\ p <= q) =>
             /\ n.pc = "done" =>
                   /\ n.outs = PairsOf(F, S, p)
                   /\ Len(n.ins) = 2 * p
             /\ (~waitForAll /\ ~ENABLED NextOpen) => n.pc = "done"
       /\ (adapters[2].pc = "done" /\ p > q) =>
             /\ n.pc = "done" =>
                   /\ n.outs = Append(PairsOf(F, S, q), F[q + 1])
                   /\ Len(n.ins) = 2 * q + 1
             /\ (~waitForAll /\ ~ENABLED NextOpen) => n.pc = "done"
       /\ (srcOpen[2] /\ ~cancelled /\ hist.counts[1] > hist.counts[2]) =>
             /\ n.pc # "done"
             /\ Len(n.ins) <= 2 * hist.counts[2] + 1
             /\ Len(n.ins) = 2 * hist.counts[2] + 1 =>
                   /\ n.pc = "second"
                   /\ n.v = F[q + 1]
                   /\ n.outs = PairsOf(F, S, q)
                   /\ ~ENABLED NodeStep(1)

C12_Witness ==
    /\ OneOrderedNode
    /\ srcOpen[2] /\ ~cancelled
    /\ hist.counts = <<2, 1>>
    /\ nodes[1].pc = "second"
    /\ Len(nodes[1].ins) = 3
    /\ delivered = PairsOf(hist.fwd[1], hist.fwd[2], 1)
    /\ ~ENABLED NodeStep(1)

\* The values the adapter of leaf l has read from its source so far.
ReadBy(l) ==
    SubSeq(LeafVals(l, hist.counts[l]), 1, hist.counts[l] - Len(src[l]))

\* C13: for every leaf adapter, in every state, the values it has pushed to
\* its queue are a prefix of the values it has read from its source, none
\* twice, and the values read are the values pushed and the one being
\* pushed; its queue is closed only when it has exited, with every value
\* read pushed; and when it has exited without cancellation it has pushed
\* every value of its source.
C13_ForwardsInOrder ==
    \A l \in 1..Len(adapters) :
        LET a == adapters[l]
            pushed == hist.fwd[l]
        IN /\ IsPrefix(pushed, ReadBy(l))
           /\ Cardinality(Range(pushed)) = Len(pushed)
           /\ ReadBy(l) = pushed \o (IF a.pc = "push" THEN <<a.v>> ELSE <<>>)
           /\ chans[a.c].closed <=> a.pc = "done"
           /\ a.pc = "done" => pushed = ReadBy(l)
           /\ (a.pc = "done" /\ ~cancelled) => pushed = LeafVals(l, hist.counts[l])

C13_Witness ==
    /\ Len(adapters) = 2
    /\ cancelled
    /\ adapters[1].pc = "done"
    /\ Len(hist.fwd[1]) = 1
    /\ Len(src[1]) = 1
    /\ adapters[2].pc = "push"
    /\ Len(hist.fwd[2]) = 1

\* C14: once t.ctx is done every leaf adapter closes its queue and exits,
\* wherever it waits and whether or not its queue is still read: in
\* streaming mode no run comes to its end, after the cancellation, with a
\* leaf adapter that has not exited.
C14_AdaptersExit ==
    (~waitForAll /\ cancelled /\ ~ENABLED Next) => AllAdaptersDone

\* C15: every call of Add retires the collectors of the earlier calls,
\* whatever they were doing: a collector of an earlier generation that waits
\* in its select waits on a stop channel that is closed, so that it exits
\* and leaves its stream to the node it was paired into and to the
\* collectors of the new generation.
C15_OldGenerationRetires ==
    \A i \in 1..Len(collectors) :
        (hist.gens[i] < stopGen /\ collectors[i].pc = "select")
        => collectors[i].stop < stopGen

\* Bit i of the binary representation of k.
Bit(k, i) == (k \div (2 ^ i)) % 2

RECURSIVE PopCount(_)
PopCount(k) == IF k = 0 THEN 0 ELSE (k % 2) + PopCount(k \div 2)

\* floor(log2 k), for k >= 1.
Log2(k) == CHOOSE m \in 0..RootsLen : 2 ^ m <= k /\ k < 2 ^ (m + 1)

\* The streams of the tree: the queues of the adapters and the outputs of
\* the nodes.
Streams ==
    {adapters[l].c : l \in 1..Len(adapters)} \cup {nodes[j].c : j \in 1..Len(nodes)}

\* The level of a stream: 0 for an adapter's queue, one more than its first
\* input for a node's output.
RECURSIVE LevelOf(_)
LevelOf(c) ==
    IF \E j \in 1..Len(nodes) : nodes[j].c = c
    THEN LevelOf(nodes[CHOOSE j \in 1..Len(nodes) : nodes[j].c = c].f) + 1
    ELSE 0

\* The slots that hold stream c, and the node inputs that are stream c.
UsesOf(c) ==
    Cardinality({i \in 1..Len(roots) : roots[i] = c})
    + Cardinality({j \in 1..Len(nodes) : nodes[j].f = c})
    + Cardinality({j \in 1..Len(nodes) : nodes[j].s = c})

\* C16: after k leaf streams were added, by whatever calls of Add, level i
\* of t.roots is occupied exactly when bit i of k is 1, by a stream of that
\* level; k - popcount(k) nodes were made, each over two streams of one
\* level; the highest occupied level is floor(log2 k); and every stream is
\* in exactly one slot or is the input of exactly one node.
C16_BinaryCounter ==
    LET k == Len(adapters)
    IN /\ \A i \in 1..Len(roots) :
             /\ roots[i] # Nil <=> Bit(k, i - 1) = 1
             /\ roots[i] # Nil => LevelOf(roots[i]) = i - 1
       /\ Len(nodes) = k - PopCount(k)
       /\ \A j \in 1..Len(nodes) :
             /\ nodes[j].f # nodes[j].s
             /\ LevelOf(nodes[j].f) = LevelOf(nodes[j].s)
       /\ k >= 1 => /\ roots[Log2(k) + 1] # Nil
                    /\ \A i \in (Log2(k) + 2)..Len(roots) : roots[i] = Nil
       /\ \A c \in Streams : UsesOf(c) = 1

C16_Witness ==
    /\ Len(adapters) = 7
    /\ hist.adds = 3
    /\ Len(nodes) = 4
    /\ roots[1] # Nil /\ roots[2] # Nil /\ roots[3] # Nil

\* The result of a call of the combiner with the arguments args.
ResultOf(args) == combiner(args[1], args[2])

\* C17: with waitForAll, when Finish finds v1, ..., vm (m >= 1) in Output it
\* calls the combiner m-1 times, the first time with (v1, v2) and then with
\* (the result of the call before, v_k+1), and pushes the result of the last
\* call, the left fold of v1..vm, and nothing else; for m = 1 it calls no
\* combiner and pushes v1.
C17_LeftFold ==
    (waitForAll /\ fin = "done" /\ hist.folded # <<>>)
    => LET vs == hist.folded
           m == Len(vs)
       IN /\ Len(hist.calls) = m - 1
          /\ hist.combines = m - 1
          /\ \A k \in 1..(m - 1) :
                hist.calls[k] = <<IF k = 1 THEN vs[1] ELSE ResultOf(hist.calls[k - 1]),
                                  vs[k + 1]>>
          /\ hist.finPushed = <<IF m = 1 THEN vs[1] ELSE ResultOf(hist.calls[m - 1])>>
          /\ Flatten(hist.finPushed) = Flatten(vs)
          /\ delivered \o output.buf = hist.finPushed

C17_Witness ==
    /\ waitForAll /\ fin = "done"
    /\ Len(hist.folded) = 3
    /\ hist.combines = 2
    /\ delivered = hist.finPushed
    /\ sawClosed

\* Every stream in a slot of t.roots is closed.
RootsClosed == \A i \in 1..Len(roots) : roots[i] # Nil => chans[roots[i]].closed

\* C18: in streaming mode, with a consumer that keeps reading Output and a
\* scheduler that lets every goroutine run, a call of Finish returns and
\* closes Output, also when sources stay open or still hold values: every
\* root stream gets closed and every collector exits.
C18_StreamingFinishReturns ==
    (fin = "wait")
    ~> (fin = "done" /\ output.closed /\ RootsClosed /\ AllCollectorsDone)

C18_Witness ==
    /\ fin = "done" /\ output.closed
    /\ hist.adds = 2
    /\ srcOpen = <<TRUE, TRUE>>
    /\ src[1] # <<>>
    /\ hist.retired = 0
    /\ Len(delivered) >= 1
    /\ sawClosed

====
